---- MODULE Spec2Model ----
(***************************************************************************)
(* A model of src/main.py: find_image_locations (validation, template      *)
(* match, thresholding, DBSCAN de-duplication) and the automation run      *)
(* main() that drives it against an Android device.                        *)
(*                                                                         *)
(* Reals are kept in tenths: a score or a confidence of 0.8 is the         *)
(* integer 8, Tenths(1) is 1.0.                                            *)
(***************************************************************************)
EXTENDS Integers, Sequences, FiniteSets

VARIABLES
    files,                \* the file system: does each image path exist
    confidence_interval,  \* argument of find_image_locations, in tenths
    pc,                   \* position inside find_image_locations
    exception_group,      \* local list of validation errors (line 53)
    raised,               \* the exception that left the function, <<>> if none
    effects,              \* history: the image computations performed so far
    main_image_gray,      \* local (line 69)
    sub_image,            \* local (line 70)
    results,              \* local (line 72)
    points,               \* local (line 76)
    labels,               \* cluster.labels_ (line 81)
    filtered_points,      \* local / return value (lines 82-88)
    outcomes,             \* history: the outcome of every finished call
    devices,              \* what adb lists: one manufacturer string per device
    hu_device,            \* local of main (line 105): 0 is None
    mpc,                  \* position inside main
    steps,                \* history: device interactions and calls main made
    taps                  \* history: the taps injected on devices

vars == <<files, confidence_interval, pc, exception_group, raised, effects,
          main_image_gray, sub_image, results, points, labels,
          filtered_points, outcomes, devices, hu_device, mpc, steps, taps>>

callVars == <<pc, exception_group, raised, effects, main_image_gray,
              sub_image, results, points, labels, filtered_points, outcomes>>

mainVars == <<devices, hu_device, mpc, steps, taps>>

----------------------------------------------------------------------------
(* Bounds of the model *)

MaxRow == 1       \* the score matrix has rows 0..MaxRow
MaxCol == 6       \* and columns 0..MaxCol
MaxHot == 3       \* at most MaxHot cells score above the background
MaxDevices == 2   \* at most MaxDevices devices are attached

(* Program constants *)

eps == 5          \* DBSCAN(eps=5, ...)
min_samples == 1  \* DBSCAN(..., min_samples=1)

Tenths(x) == 10 * x

Rows == 0..MaxRow
Cols == 0..MaxCol
Cells == Rows \X Cols

RECURSIVE SubsetsUpTo(_, _)
SubsetsUpTo(S, k) ==
    IF k = 0 THEN {{}}
    ELSE LET prev == SubsetsUpTo(S, k - 1)
         IN  prev \cup {s \cup {x} : s \in prev, x \in S}

(* The inputs the model draws from. *)
Confidences == {-1, 0, 8, Tenths(1), Tenths(1) + 1}
SubShapes == {<<4, 4>>, <<6, 3>>}     \* numpy shape: (height, width)
Manufacturers == {"Harman International", "samsung"}

(* A main image is represented by what cv.matchTemplate finds in it: the  *)
(* windows of `hot` resemble the sub-image, exactly (score 1.0) in the     *)
(* even columns and nearly (0.8) in the odd ones; every other window       *)
(* scores `background`.                                                    *)
Response(hot, background) ==
    [cell \in Cells |-> IF cell \notin hot THEN background
                        ELSE IF cell[2] % 2 = 0 THEN Tenths(1)
                        ELSE 8]

(* The images the model draws from: textured images with up to MaxHot    *)
(* hot windows on a background that anti-correlates (-0.4), and the flat   *)
(* image, every window of which scores 0.                                  *)
FlatImage == [hot |-> {}, background |-> 0]
MainImages ==
    {[hot |-> h, background |-> -4] : h \in SubsetsUpTo(Cells, MaxHot)}
    \cup {FlatImage}

NoImage == [hot |-> {}, background |-> 0]
NoShape == <<0, 0>>
NoResults == [cell \in {} |-> 0]

(* cv.matchTemplate(main_image_gray, sub_image, cv.TM_CCOEFF_NORMED) *)
cv_matchTemplate(image, templ) == Response(image.hot, image.background)

----------------------------------------------------------------------------
(* find_image_locations: input validation (lines 52-65) *)

MainNotFound == [type |-> "FileNotFoundError", msg |-> "Main Image Path Not Found!"]
SubNotFound == [type |-> "FileNotFoundError", msg |-> "Sub Image Path Not Found!"]
BadConfidence ==
    [type |-> "ValueError", msg |-> "Confidence Interval must be between 0 and 1"]
DecodeError == [type |-> "cv2.error", msg |-> "image could not be decoded"]
EmptyArray == [type |-> "ValueError", msg |-> "Expected 2D array, got 1D array instead"]

(* Path.exists() *)
exists(fs, which) == IF which = "main" THEN fs.main_exists ELSE fs.sub_exists

(* 0 <= confidence_interval <= 1 *)
InUnitInterval(c) == 0 <= c /\ c <= Tenths(1)

(* Mutant: the confidence check is left out. *)
ValidationErrors_SkipConfidence(fs, c) ==
    (IF ~exists(fs, "main") THEN <<MainNotFound>> ELSE <<>>)
    \o (IF ~exists(fs, "sub") THEN <<SubNotFound>> ELSE <<>>)

(* The list the three `if` statements of lines 54-59 build. *)
ValidationErrors(fs, c) ==
    (IF ~exists(fs, "main") THEN <<MainNotFound>> ELSE <<>>)
    \o (IF ~exists(fs, "sub") THEN <<SubNotFound>> ELSE <<>>)
    \o (IF ~InUnitInterval(c) THEN <<BadConfidence>> ELSE <<>>)

(* `raise exception_group[0]` (line 61): what leaves the function. *)
RaiseGroup(group) == <<group[1]>>

----------------------------------------------------------------------------
(* find_image_locations: thresholding (lines 71-77) *)

NumCols == MaxCol + 1
NumCells == (MaxRow + 1) * NumCols

(* The cells np.where visits, in C (row-major) order. *)
RECURSIVE WhereFrom(_, _, _)
WhereFrom(S, c, k) ==
    IF k = NumCells THEN <<>>
    ELSE LET cell == <<k \div NumCols, k % NumCols>>
         IN  (IF S[cell] >= c THEN <<cell>> ELSE <<>>) \o WhereFrom(S, c, k + 1)

(* np.where(results >= confidence_interval): (row indices, column indices) *)
np_where(S, c) ==
    LET hit == WhereFrom(S, c, 0)
    IN  << [k \in 1..Len(hit) |-> hit[k][1]], [k \in 1..Len(hit) |-> hit[k][2]] >>

(* sub_image.shape[::-1] (line 71): (width, height) of a (height, width) array *)
ShapeReversed(shape) == <<shape[2], shape[1]>>
sub_image_width(shape) == ShapeReversed(shape)[1]
sub_image_height(shape) == ShapeReversed(shape)[2]

(* Mutant: locations is zipped without being reversed. *)
CenterPoints_Unreversed(locations, shape) ==
    LET x_cords == locations[1]
        y_cords == locations[2]
    IN  [k \in 1..Len(x_cords) |->
            << x_cords[k] + sub_image_width(shape) \div 2,
               y_cords[k] + sub_image_height(shape) \div 2 >>]

(* The list comprehension of lines 76-77: locations reversed, then zipped. *)
CenterPoints(locations, shape) ==
    LET x_cords == locations[2]
        y_cords == locations[1]
    IN  [k \in 1..Len(x_cords) |->
            << x_cords[k] + sub_image_width(shape) \div 2,
               y_cords[k] + sub_image_height(shape) \div 2 >>]

----------------------------------------------------------------------------
(* find_image_locations: DBSCAN(eps=5, min_samples=1).fit (line 81) *)

SqDist(p, q) == (p[1] - q[1]) * (p[1] - q[1]) + (p[2] - q[2]) * (p[2] - q[2])

(* Mutant: a neighbour must be strictly closer than eps. *)
WithinEps_Strict(p, q) == SqDist(p, q) < eps * eps

(* Euclidean distance <= eps, on integer points *)
WithinEps(p, q) == SqDist(p, q) <= eps * eps

(* radius_neighbors: the indices within eps of X[i], X[i] itself included *)
Neighborhood(X, i) == {j \in 1..Len(X) : WithinEps(X[i], X[j])}

(* Mutant: a core sample needs a second sample in its neighbourhood. *)
is_core_TwoSamples(X, i) == Cardinality(Neighborhood(X, i)) >= min_samples + 1

is_core(X, i) == Cardinality(Neighborhood(X, i)) >= min_samples

(* The neighbour arrays come back unsorted (sort_results=False): the     *)
(* model lets them come in ascending or in descending index order.        *)
NeighborOrders == {"ascending", "descending"}
NeighborArray(X, i, order) ==
    LET n == Len(X)
        all == IF order = "ascending" THEN [k \in 1..n |-> k]
               ELSE [k \in 1..n |-> n + 1 - k]
    IN  SelectSeq(all, LAMBDA j : j \in Neighborhood(X, i))

(* Mutant: only the first unlabelled neighbour is pushed. *)
RECURSIVE Expand_FirstNeighbourOnly(_, _, _, _, _, _)
Expand_FirstNeighbourOnly(X, lab, stack, i, label_num, order) ==
    LET fresh == lab[i] = -1
        lab1 == IF fresh THEN [lab EXCEPT ![i] = label_num] ELSE lab
        open == IF fresh /\ is_core(X, i)
                THEN SelectSeq(NeighborArray(X, i, order),
                               LAMBDA v : lab1[v] = -1)
                ELSE <<>>
        pushed == IF open = <<>> THEN <<>> ELSE <<open[1]>>
        stack1 == SelectSeq(stack \o pushed, LAMBDA v : lab1[v] = -1)
    IN  IF stack1 = <<>> THEN lab1
        ELSE Expand_FirstNeighbourOnly(X, lab1, SubSeq(stack1, 1, Len(stack1) - 1),
                                       stack1[Len(stack1)], label_num, order)

(* The depth-first expansion of dbscan_inner from sample i: lab is the     *)
(* label array (-1 is unlabelled), stack the explicit stack. Popping a     *)
(* sample that has been labelled meanwhile changes nothing, so such        *)
(* entries are dropped from the stack at once.                             *)
RECURSIVE Expand(_, _, _, _, _, _)
Expand(X, lab, stack, i, label_num, order) ==
    LET fresh == lab[i] = -1
        lab1 == IF fresh THEN [lab EXCEPT ![i] = label_num] ELSE lab
        pushed == IF fresh /\ is_core(X, i)
                  THEN SelectSeq(NeighborArray(X, i, order),
                                 LAMBDA v : lab1[v] = -1)
                  ELSE <<>>
        stack1 == SelectSeq(stack \o pushed, LAMBDA v : lab1[v] = -1)
    IN  IF stack1 = <<>> THEN lab1
        ELSE Expand(X, lab1, SubSeq(stack1, 1, Len(stack1) - 1),
                    stack1[Len(stack1)], label_num, order)

RECURSIVE dbscan_inner(_, _, _, _, _)
dbscan_inner(X, lab, i, label_num, order) ==
    IF i > Len(X) THEN lab
    ELSE IF lab[i] # -1 \/ ~is_core(X, i)
         THEN dbscan_inner(X, lab, i + 1, label_num, order)
         ELSE dbscan_inner(X, Expand(X, lab, <<>>, i, label_num, order),
                           i + 1, label_num + 1, order)

(* cluster.labels_ for a non-empty X *)
fit_labels(X, order) == dbscan_inner(X, [i \in 1..Len(X) |-> -1], 1, 0, order)

(* np.array([], dtype=int) is one-dimensional: fit rejects it. *)
fit_rejects(X) == Len(X) = 0

----------------------------------------------------------------------------
(* find_image_locations: one point per label (lines 82-88) *)

RECURSIVE FilterFrom(_, _, _, _, _)
FilterFrom(pts, lab, index, filtered, used_labels_set) ==
    IF index > Len(lab) THEN filtered
    ELSE IF lab[index] \notin used_labels_set
         THEN FilterFrom(pts, lab, index + 1, Append(filtered, pts[index]),
                         used_labels_set \cup {lab[index]})
         ELSE FilterFrom(pts, lab, index + 1, filtered, used_labels_set)

(* Mutant: the label is never added to used_labels_set. *)
FilterPoints_NoDedup(pts, lab) == pts

FilterPoints(pts, lab) == FilterFrom(pts, lab, 1, <<>>, {})

----------------------------------------------------------------------------
(* The state machine of one call of find_image_locations *)

Outcome(returned, value, error) ==
    [returned |-> returned, value |-> value, error |-> error]

Raise(exc) ==
    /\ raised' = exc
    /\ pc' = "raised"
    /\ UNCHANGED filtered_points
    /\ outcomes' = Append(outcomes, Outcome(FALSE, <<>>, exc))

InitCall ==
    /\ exception_group = <<>>
    /\ raised = <<>>
    /\ effects = {}
    /\ main_image_gray = NoImage
    /\ sub_image = NoShape
    /\ results = NoResults
    /\ points = <<>>
    /\ labels = <<>>
    /\ filtered_points = <<>>

(* lines 52-65 *)
Validate ==
    /\ pc = "start"
    /\ exception_group' = ValidationErrors(files, confidence_interval)
    /\ IF exception_group' # <<>>
       THEN Raise(RaiseGroup(exception_group'))
       ELSE /\ pc' = "validated"
            /\ UNCHANGED <<raised, filtered_points, outcomes>>
    /\ UNCHANGED <<files, confidence_interval, effects, main_image_gray,
                   sub_image, results, points, labels>>
    /\ UNCHANGED mainVars

(* What the two files may hold: any main image with any sub-image, or    *)
(* bytes that do not decode.                                               *)
Contents ==
    {[image |-> im, shape |-> sh, decodable |-> TRUE] :
        im \in MainImages, sh \in SubShapes}
    \cup {[image |-> NoImage, shape |-> NoShape, decodable |-> FALSE]}

(* lines 68-71: the first read of the files reveals their content, later  *)
(* reads find the same; a file that exists need not decode, and            *)
(* cv.cvtColor then raises.                                                *)
ReadImages ==
    /\ pc = "validated"
    /\ effects' = effects \cup {"imread"}
    /\ \E content \in (IF files.observed
                       THEN {[image |-> files.main_content,
                              shape |-> files.sub_content,
                              decodable |-> files.decodable]}
                       ELSE Contents) :
          /\ files' = [files EXCEPT !.observed = TRUE,
                                    !.decodable = content.decodable,
                                    !.main_content = content.image,
                                    !.sub_content = content.shape]
          /\ IF content.decodable
             THEN /\ main_image_gray' = content.image
                  /\ sub_image' = content.shape
                  /\ pc' = "loaded"
                  /\ UNCHANGED <<raised, filtered_points, outcomes>>
             ELSE /\ Raise(<<DecodeError>>)
                  /\ UNCHANGED <<main_image_gray, sub_image>>
    /\ UNCHANGED <<confidence_interval, exception_group, results, points, labels>>
    /\ UNCHANGED mainVars

(* line 72 *)
MatchTemplate ==
    /\ pc = "loaded"
    /\ results' = cv_matchTemplate(main_image_gray, sub_image)
    /\ effects' = effects \cup {"matchTemplate"}
    /\ pc' = "matched"
    /\ UNCHANGED <<files, confidence_interval, exception_group, raised,
                   main_image_gray, sub_image, points, labels, filtered_points,
                   outcomes>>
    /\ UNCHANGED mainVars

(* lines 73-77 *)
Threshold ==
    /\ pc = "matched"
    /\ points' = CenterPoints(np_where(results, confidence_interval), sub_image)
    /\ pc' = "points"
    /\ UNCHANGED <<files, confidence_interval, exception_group, raised, effects,
                   main_image_gray, sub_image, results, labels, filtered_points,
                   outcomes>>
    /\ UNCHANGED mainVars

(* line 81 *)
Cluster ==
    /\ pc = "points"
    /\ effects' = effects \cup {"DBSCAN"}
    /\ IF fit_rejects(points)
       THEN /\ Raise(<<EmptyArray>>)
            /\ UNCHANGED labels
       ELSE /\ \E order \in NeighborOrders : labels' = fit_labels(points, order)
            /\ pc' = "clustered"
            /\ UNCHANGED <<raised, filtered_points, outcomes>>
    /\ UNCHANGED <<files, confidence_interval, exception_group, main_image_gray,
                   sub_image, results, points>>
    /\ UNCHANGED mainVars

(* lines 82-88 *)
Filter ==
    /\ pc = "clustered"
    /\ filtered_points' = FilterPoints(points, labels)
    /\ pc' = "returned"
    /\ outcomes' = Append(outcomes, Outcome(TRUE, filtered_points', <<>>))
    /\ UNCHANGED <<files, confidence_interval, exception_group, raised, effects,
                   main_image_gray, sub_image, results, points, labels>>
    /\ UNCHANGED mainVars

(* A second call with the same arguments, the files untouched. *)
CallAgain ==
    /\ mpc = "none"
    /\ pc \in {"returned", "raised"}
    /\ Len(outcomes) < 2
    /\ pc' = "start"
    /\ exception_group' = <<>>
    /\ raised' = <<>>
    /\ effects' = {}
    /\ main_image_gray' = NoImage
    /\ sub_image' = NoShape
    /\ results' = NoResults
    /\ points' = <<>>
    /\ labels' = <<>>
    /\ filtered_points' = <<>>
    /\ UNCHANGED <<files, confidence_interval, outcomes>>
    /\ UNCHANGED mainVars

FileSystems ==
    {[main_exists |-> m, sub_exists |-> s, observed |-> FALSE, decodable |-> TRUE,
      main_content |-> NoImage, sub_content |-> NoShape] : m, s \in BOOLEAN}

Init ==
    /\ files \in FileSystems
    /\ confidence_interval \in Confidences
    /\ pc = "start"
    /\ InitCall
    /\ outcomes = <<>>
    /\ devices = <<>>
    /\ hu_device = 0
    /\ mpc = "none"
    /\ steps = <<>>
    /\ taps = <<>>

Next == Validate \/ ReadImages \/ MatchTemplate \/ Threshold \/ Cluster \/ Filter

Spec == Init /\ [][Next]_vars

NextTwice == Next \/ CallAgain

SpecTwice == Init /\ [][NextTwice]_vars

----------------------------------------------------------------------------
(* main() and the device helpers (lines 8-36, 91-111) *)

(* "Harman" in device.shell("getprop ro.product.manufacturer") *)
ContainsHarman(manufacturer) == manufacturer = "Harman International"

(* get_hu_device: the first listed device that answers Harman, 0 for None *)
get_hu_device(devs) ==
    IF \E i \in 1..Len(devs) : ContainsHarman(devs[i])
    THEN CHOOSE i \in 1..Len(devs) :
            /\ ContainsHarman(devs[i])
            /\ \A j \in 1..(i - 1) : ~ContainsHarman(devs[j])
    ELSE 0

(* what `input tap x y` is sent to, and with which coordinates (line 99) *)
TapCommand(device, location_x, location_y) ==
    [device |-> device, x |-> location_x, y |-> location_y]

(* Mutant: at least one point is accepted. *)
AtLeastOnePoint(found_points) == Len(found_points) >= 1

(* the condition asserted on line 109 *)
ExactlyOnePoint(found_points) == Len(found_points) = 1

(* the keyword argument of line 108 *)
MainConfidence == 8

(* lines 105-106 *)
MainGetDevice ==
    /\ mpc = "start"
    /\ hu_device' = get_hu_device(devices)
    /\ steps' = Append(steps, "get_hu_device")
    /\ mpc' = IF hu_device' = 0 THEN "AssertionError" ELSE "screenshot"
    /\ UNCHANGED <<devices, taps, files, confidence_interval>>
    /\ UNCHANGED callVars

(* line 107: the screen capture is written to screenshot_path *)
MainScreenshot ==
    /\ mpc = "screenshot"
    /\ hu_device # 0
    /\ files' = [files EXCEPT !.main_exists = TRUE, !.observed = FALSE]
    /\ steps' = Append(steps, "screencap")
    /\ mpc' = "locate"
    /\ UNCHANGED <<devices, hu_device, taps, confidence_interval>>
    /\ UNCHANGED callVars

(* line 108: the call *)
MainLocate ==
    /\ mpc = "locate"
    /\ confidence_interval' = MainConfidence
    /\ pc' = "start"
    /\ steps' = Append(steps, "find_image_locations")
    /\ mpc' = "in_call"
    /\ UNCHANGED <<devices, hu_device, taps, files>>
    /\ UNCHANGED <<exception_group, raised, effects, main_image_gray, sub_image,
                   results, points, labels, filtered_points, outcomes>>

(* line 108: an exception of the call leaves main *)
MainPropagate ==
    /\ mpc = "in_call"
    /\ pc = "raised"
    /\ mpc' = "raised"
    /\ UNCHANGED <<devices, hu_device, steps, taps, files, confidence_interval>>
    /\ UNCHANGED callVars

(* lines 108-110: the call returned; exactly one point is expected *)
MainAssertOne ==
    /\ mpc = "in_call"
    /\ pc = "returned"
    /\ mpc' = IF ExactlyOnePoint(filtered_points) THEN "press" ELSE "AssertionError"
    /\ UNCHANGED <<devices, hu_device, steps, taps, files, confidence_interval>>
    /\ UNCHANGED callVars

(* line 111 *)
MainPress ==
    /\ mpc = "press"
    /\ taps' = Append(taps, TapCommand(hu_device, filtered_points[1][1],
                                       filtered_points[1][2]))
    /\ steps' = Append(steps, "tap")
    /\ mpc' = "done"
    /\ UNCHANGED <<devices, hu_device, files, confidence_interval>>
    /\ UNCHANGED callVars

RECURSIVE SeqsUpTo(_, _)
SeqsUpTo(S, n) ==
    IF n = 0 THEN {<<>>}
    ELSE LET shorter == SeqsUpTo(S, n - 1)
         IN  shorter \cup {Append(q, x) : q \in shorter, x \in S}

InitMain ==
    /\ files \in FileSystems
    /\ confidence_interval = 0
    /\ pc = "idle"
    /\ InitCall
    /\ outcomes = <<>>
    /\ devices \in SeqsUpTo(Manufacturers, MaxDevices)
    /\ hu_device = 0
    /\ mpc = "start"
    /\ steps = <<>>
    /\ taps = <<>>

NextMain ==
    \/ MainGetDevice \/ MainScreenshot \/ MainLocate \/ MainPropagate
    \/ MainAssertOne \/ MainPress
    \/ Validate \/ ReadImages \/ MatchTemplate \/ Threshold \/ Cluster \/ Filter

SpecMain == InitMain /\ [][NextMain]_vars

----------------------------------------------------------------------------
(* Vocabulary of the properties, stated without the operators above *)

ConfidenceInRange == 0 <= confidence_interval /\ confidence_interval <= 10
ChecksPass == files.main_exists /\ files.sub_exists /\ ConfidenceInRange
Finished == pc \in {"returned", "raised"}
ErrorTypes == {raised[k].type : k \in 1..Len(raised)}

(* Euclidean distance <= 5 *)
Near(p, q) == (p[1] - q[1]) * (p[1] - q[1]) + (p[2] - q[2]) * (p[2] - q[2]) <= 25

(* the indices of the candidate points chained to those of S *)
RECURSIVE Chained(_)
Chained(S) ==
    LET more == S \cup {j \in 1..Len(points) : \E i \in S : Near(points[i], points[j])}
    IN  IF more = S THEN S ELSE Chained(more)

ClusterOf(i) == Chained({i})
FirstMembers == {i \in 1..Len(points) : \A j \in ClusterOf(i) : i <= j}

(* the width and height of the sub-image on disk, a (height, width) array *)
SubWidth == files.sub_content[2]
SubHeight == files.sub_content[1]
CenterOf(cell) == <<cell[2] + SubWidth \div 2, cell[1] + SubHeight \div 2>>
ScanBefore(d, cell) == d[1] < cell[1] \/ (d[1] = cell[1] /\ d[2] < cell[2])
Thresholded == pc \in {"points", "clustered", "returned"}
                  \/ (pc = "raised" /\ "DBSCAN" \in effects)

----------------------------------------------------------------------------
(* C1: when one or more of the three pre-flight checks fail, the error    *)
(* raised holds one entry per failing check: a FileNotFoundError for each  *)
(* missing path and a ValueError for a confidence outside [0,1].           *)
C1_AllFailingChecksReported ==
    (pc = "raised" /\ ~ChecksPass) =>
        /\ Len(raised) = (IF files.main_exists THEN 0 ELSE 1)
                         + (IF files.sub_exists THEN 0 ELSE 1)
                         + (IF ConfidenceInRange THEN 0 ELSE 1)
        /\ ~files.main_exists => \E k \in 1..Len(raised) : raised[k] = MainNotFound
        /\ ~files.sub_exists => \E k \in 1..Len(raised) : raised[k] = SubNotFound
        /\ ~ConfidenceInRange => \E k \in 1..Len(raised) : raised[k] = BadConfidence

(* C2: a confidence outside [0,1] always ends the call in a ValueError,   *)
(* whether or not the two paths exist.                                     *)
C2_BadConfidenceRaisesValueError ==
    (pc # "start" /\ ~ConfidenceInRange) =>
        (pc = "raised" /\ "ValueError" \in ErrorTypes)

(* C3: no image is read, matched or clustered unless all three checks     *)
(* passed, and a call whose validation fails ends in the error state       *)
(* without any image computation.                                          *)
C3_ValidationPrecedesProcessing ==
    /\ (effects # {} \/ pc \in {"validated", "loaded", "matched", "points",
                                "clustered", "returned"}) => ChecksPass
    /\ (~ChecksPass /\ pc # "start") =>
          /\ pc = "raised"
          /\ raised # <<>>
          /\ effects = {}
          /\ main_image_gray = NoImage
          /\ results = NoResults
          /\ points = <<>>
          /\ labels = <<>>
          /\ filtered_points = <<>>

C3_Witness ==
    /\ pc = "raised"
    /\ files.main_exists /\ files.sub_exists /\ ~ConfidenceInRange
    /\ effects = {}

(* C4: when validation passes and no cell of the score matrix reaches the *)
(* threshold, the call returns the empty list and raises nothing.          *)
C4_NoMatchReturnsEmptyList ==
    (/\ Finished
     /\ ChecksPass
     /\ "matchTemplate" \in effects
     /\ \A cell \in Cells : results[cell] < confidence_interval)
    => (pc = "returned" /\ filtered_points = <<>> /\ raised = <<>>)

C6_CandidatesAreThresholdedCells ==
    Thresholded =>
        LET hits == {cell \in Cells : results[cell] >= confidence_interval}
        IN  /\ Len(points) = Cardinality(hits)
            /\ \A cell \in hits :
                  points[1 + Cardinality({d \in hits : ScanBefore(d, cell)})]
                      = CenterOf(cell)
            /\ \A k, l \in 1..Len(points) : points[k] = points[l] => k = l

C6_Witness ==
    /\ pc = "points"
    /\ Len(points) = 3
    /\ files.sub_content = <<6, 3>>
    /\ \E cell \in Cells : results[cell] = confidence_interval
    /\ \E cell \in Cells : results[cell] > confidence_interval
    /\ \E cell \in Cells : results[cell] < confidence_interval

(* C7: two candidate points within distance 5 of each other contribute    *)
(* exactly one point to the returned list, and no two returned points are  *)
(* within distance 5 of each other.                                        *)
C7_NearDuplicatesCollapse ==
    pc = "returned" =>
        /\ \A i, j \in 1..Len(points) :
              Near(points[i], points[j]) =>
                 Cardinality({k \in 1..Len(filtered_points) :
                                \E m \in ClusterOf(i) \cup ClusterOf(j) :
                                    filtered_points[k] = points[m]}) = 1
        /\ \A k, l \in 1..Len(filtered_points) :
              k # l => ~Near(filtered_points[k], filtered_points[l])

C7_Witness ==
    /\ pc = "returned"
    /\ Len(points) = 3
    /\ Len(filtered_points) = 1
    /\ \E i, j \in 1..Len(points) :
          (points[i][1] - points[j][1]) * (points[i][1] - points[j][1])
          + (points[i][2] - points[j][2]) * (points[i][2] - points[j][2]) = 25

(* the windows where the sub-image occurs exactly: score 1.0 *)
Occurrences == {cell \in Cells : results[cell] = 10}
FirstOccurrence == CHOOSE o \in Occurrences : \A d \in Occurrences : ~ScanBefore(d, o)
SecondOccurrence == CHOOSE o \in Occurrences : o # FirstOccurrence
GroupOf(o) == {k \in 1..Len(points) : Near(points[k], CenterOf(o))}
Least(S) == CHOOSE m \in S : \A k \in S : m <= k

(* two occurrences more than 5 apart, every above-threshold window within *)
(* 5 of one of them                                                        *)
TwoOccurrences ==
    /\ pc = "returned"
    /\ Cardinality(Occurrences) = 2
    /\ ~Near(CenterOf(FirstOccurrence), CenterOf(SecondOccurrence))
    /\ GroupOf(FirstOccurrence) \cup GroupOf(SecondOccurrence) = 1..Len(points)

(* no window around one occurrence is within 5 of a window around the other *)
GroupsSeparated ==
    \A a \in GroupOf(FirstOccurrence), b \in GroupOf(SecondOccurrence) :
        ~Near(points[a], points[b])

(* C8, as claimed: two occurrences whose centres are more than 5 apart    *)
(* give exactly the two centres, in scan order, whatever above-threshold   *)
(* windows surround them.                                                  *)
C8_TwoOccurrencesTwoCenters ==
    TwoOccurrences =>
        filtered_points = <<CenterOf(FirstOccurrence), CenterOf(SecondOccurrence)>>

(* C8, amended: when moreover no window around one occurrence is within 5 *)
(* of a window around the other, exactly two points are returned, one per  *)
(* occurrence: the first-scanned above-threshold window of each group, in  *)
(* scan order.                                                             *)
C8_TwoSeparatedGroupsTwoPoints ==
    (TwoOccurrences /\ GroupsSeparated) =>
        LET m1 == Least(GroupOf(FirstOccurrence))
            m2 == Least(GroupOf(SecondOccurrence))
        IN  /\ Len(filtered_points) = 2
            /\ filtered_points = IF m1 < m2 THEN <<points[m1], points[m2]>>
                                 ELSE <<points[m2], points[m1]>>
            /\ Len(points) = 2 =>
                  filtered_points = <<CenterOf(FirstOccurrence),
                                      CenterOf(SecondOccurrence)>>

C8_Witness ==
    /\ TwoOccurrences
    /\ GroupsSeparated
    /\ Len(points) = 3
    /\ filtered_points # <<CenterOf(FirstOccurrence), CenterOf(SecondOccurrence)>>

(* the renumberings of the cluster labels *)
LabelSet == {labels[i] : i \in 1..Len(labels)}
Renumberings == {f \in [LabelSet -> LabelSet] : \A a, b \in LabelSet : f[a] = f[b] => a = b}

(* C9: two calls with the same arguments on the same files end alike,     *)
(* with the same list in the same order when they return, and the list     *)
(* returned does not depend on how the clusters are numbered.              *)
C9_SameInputsSameOutcome ==
    /\ Len(outcomes) = 2 => outcomes[1] = outcomes[2]
    /\ pc = "returned" =>
          \A f \in Renumberings :
              FilterPoints(points, [i \in 1..Len(labels) |-> f[labels[i]]])
                  = filtered_points

C9_Witness ==
    /\ Len(outcomes) = 2
    /\ outcomes[2].returned
    /\ Len(points) = 3
    /\ Len(outcomes[2].value) = 2

(* C10: main finds the device, captures the screen, locates and taps, in  *)
(* that order; a tap is injected only on the device found and only when    *)
(* the call returned exactly one point, whose coordinates it carries.      *)
MainOrder == <<"get_hu_device", "screencap", "find_image_locations", "tap">>
DeviceFound == \E i \in 1..Len(devices) : devices[i] = "Harman International"

C10_TapOnlyOnSinglePoint ==
    /\ Len(steps) <= Len(MainOrder)
    /\ \A k \in 1..Len(steps) : steps[k] = MainOrder[k]
    /\ Len(taps) <= 1
    /\ taps # <<>> =>
          /\ DeviceFound
          /\ devices[taps[1].device] = "Harman International"
          /\ pc = "returned"
          /\ Len(filtered_points) = 1
          /\ taps[1].x = filtered_points[1][1]
          /\ taps[1].y = filtered_points[1][2]
    /\ (~DeviceFound \/ pc = "raised"
          \/ (pc = "returned" /\ Len(filtered_points) # 1)) => taps = <<>>

C10_Witness ==
    /\ mpc = "done"
    /\ Len(taps) = 1
    /\ Len(devices) = 2
    /\ taps[1].device = 2
    /\ Len(points) = 2

====
